---- MODULE Spec2Model ----
(***************************************************************************)
(* Video ingestion pipeline of the video-streaming-service repository:     *)
(* the video row (PostgresVideoRepository), the asynq queue of             *)
(* video:process jobs, TranscodingService.ProcessVideo executed by         *)
(* concurrent workers, the derived files on disk, the upload handler and   *)
(* the admin retry handler.  One video is followed from its upload.        *)
(***************************************************************************)
EXTENDS Integers, Sequences, FiniteSets, TLC

\* ------------------------------------------------------------------ bounds
\* job ids available to the upload and to admin retries of the video
MaxJobs == 2
\* failures per behaviour: a failing database, queue or disk call, a failing
\* or anomalous run of an external tool (ffprobe, ffmpeg), a worker crash
MaxFailures == 1
\* clients that request the playlists of the video, one request after the
\* other
MaxReaders == 1

\* rows of the videos table that are listed
MaxRows == 2

\* pages that are listed one after the other
MaxPages == 2

\* limit of the listings
MaxPageLimit == 1

\* the sessions of the user
MaxSessions == 2

\* the frames of GetSession and DeleteSession that the stack of a
\* goroutine holds
MaxDepth == 6

\* ------------------------------------------------------- program constants
\* asynq.MaxRetry(3) of EnqueueVideoProcessing
MaxRetry == 3
\* WORKER_MAX_CONCURRENT_JOBS default
MaxConcurrentJobs == 4

\* qualities := []string{"360p", "480p", "720p", "1080p"}
qualities == <<"360p", "480p", "720p", "1080p">>

\* qualitySpecs[q].Height
qualitySpecs ==
  [q \in {"360p", "480p", "720p", "1080p"} |->
     CASE q = "360p" -> 360
       [] q = "480p" -> 480
       [] q = "720p" -> 720
       [] q = "1080p" -> 1080]

\* heights of the uploaded sources that are followed
SourceHeights == {240, 480}

JobIds == 1..MaxJobs

ReaderIds == 1..MaxReaders

\* the playlists that are requested: the master playlist, the playlist of a
\* quality and the playlist of a quality above the source
Targets == {"master", "360p", "720p"}

\* a key playlist:<other id>:master of another video
OtherKeys == {"other:master"}

\* the keys of the playlist cache
CacheKeys == Targets \cup OtherKeys

VideoStatusUploading == "uploading"
VideoStatusProcessing == "processing"
VideoStatusReady == "ready"
VideoStatusFailed == "failed"

VARIABLES
  video,      \* the row of the videos table
  source,     \* the uploaded raw file: its height, and whether ffmpeg can
              \* transcode it at all
  disk,       \* derived files under TranscodedPath/<id> and thumbnails/,
              \* for a TranscodedPath that is the directory the handlers read
  jobs,       \* the queue: state and retried count of every video:process job
  att,        \* local variables of the ProcessVideo execution of every job
  admin,      \* position of the admin RetryVideo request
  failures,   \* failures of calls, tools and workers so far
  payload,    \* Qualities of the payload of every video:process task
  cache,      \* the playlist:<id>:* keys of the playlist cache
  readers,    \* the GET requests for the playlists of the video
  clear,      \* the DELETE .../cache request of the admin
  call,       \* the last call of a function or handler that is looked at on
              \* its own: its name, its input and its result
  session     \* the session keys and the user's session set in Redis, and
              \* the call of the SessionService that is under way

vars ==
  <<video, source, disk, jobs, att, admin, failures, payload, cache, readers,
    clear, call, session>>

\* what the pipeline, the upload and the admin retry never touch
streaming == <<cache, readers, clear>>

NoFile == <<"absent">>

NoSource == [height |-> 0, broken |-> FALSE]

\* ------------------------------------------------------------- repository
\* a row before INSERT: the column defaults of the videos table
NoVideo ==
  [exists |-> FALSE, status |-> VideoStatusUploading, progress |-> 0,
   qualities |-> <<>>, thumbnail |-> "null", processedAt |-> FALSE,
   hlsReady |-> FALSE, hlsMasterPath |-> FALSE,
   duration |-> FALSE, resolution |-> 0]

\* PostgresVideoRepository.Create
Create(v) == [v EXCEPT !.exists = TRUE, !.status = VideoStatusUploading]

\* every UPDATE ... WHERE id = $n changes nothing when the row is absent
UpdateStatus(v, s) == IF v.exists THEN [v EXCEPT !.status = s] ELSE v

UpdateProgress(v, p) == IF v.exists THEN [v EXCEPT !.progress = p] ELSE v

UpdateDuration(v) == IF v.exists THEN [v EXCEPT !.duration = TRUE] ELSE v

UpdateResolution(v, h) == IF v.exists THEN [v EXCEPT !.resolution = h] ELSE v

MarkAsFailed(v) == IF v.exists THEN [v EXCEPT !.status = VideoStatusFailed] ELSE v

UpdateHLSInfo(v) ==
  IF v.exists THEN [v EXCEPT !.hlsReady = TRUE, !.hlsMasterPath = TRUE] ELSE v

\* a MarkAsReady that writes the status column only
MarkAsReadyStatusOnly(v, qs, thumb) ==
  IF v.exists THEN [v EXCEPT !.status = VideoStatusReady] ELSE v

MarkAsReady(v, qs, thumb) ==
  IF v.exists
  THEN [v EXCEPT !.status = VideoStatusReady, !.qualities = qs,
                 !.thumbnail = thumb, !.processedAt = TRUE]
  ELSE v

\* ------------------------------------------------------------------- Init
\* redis.Nil: the key is not in the cache
NoKey == <<"nil">>

\* a request that has not been made
NoRequest ==
  [pc |-> "idle", target |-> "master", content |-> NoKey, code |-> 0,
   body |-> NoKey, sawReady |-> FALSE, afterClear |-> FALSE]

\* present: the keys of the video in the cache when the scan ran; removed:
\* the keys whose Del returned no error; deleted: deletedCount
NoClear ==
  [pc |-> "idle", keys |-> {}, seen |-> NoFile, present |-> {},
   removed |-> {}, deleted |-> 0]

\* no call was made
NoCall == [op |-> "none"]

\* the sessions of one user
SessionIds == 1..MaxSessions

\* no session is stored and no call of the SessionService is under way.
\* store: what is under session:<id>, nothing ("absent"), a session whose
\* ExpiresAt is ahead ("live") or one whose ExpiresAt has passed
\* ("expired"); userSessions: the set user_sessions:<user>; id, stack, ret:
\* the session id of the call under way, its frames (the last is the
\* running one) and what the last return gave; failed: a Redis command of
\* the call returned an error; created: the session ids handed out so far
NoSessions ==
  [store |-> [i \in SessionIds |-> "absent"], userSessions |-> {}, id |-> 0,
   stack |-> <<>>, ret |-> "none", failed |-> FALSE, created |-> 0]

\* a task id that is not in the queue
\* delay: minutes before the retry that was last scheduled
NoJob ==
  [state |-> "none", retried |-> 0, priority |-> 0, queue |-> "", delay |-> 0]

NoAttempt ==
  [pc |-> "done", i |-> 0, height |-> 0, transcoded |-> <<>>,
   hlsQualities |-> <<>>, thumb |-> "", persisted |-> <<>>, result |-> "none",
   succeeded |-> {}]

Init ==
  /\ video = NoVideo
  /\ source = NoSource
  /\ disk = [mp4 |-> {}, playlist |-> {}, segments |-> {},
             master |-> NoFile, thumbnail |-> FALSE, rewritten |-> {}]
  /\ jobs = [j \in JobIds |-> NoJob]
  /\ att = [j \in JobIds |-> NoAttempt]
  /\ admin = "idle"
  /\ failures = 0
  /\ payload = [j \in JobIds |-> qualities]
  /\ cache = [k \in CacheKeys |-> NoKey]
  /\ readers = [r \in ReaderIds |-> NoRequest]
  /\ clear = NoClear
  /\ call = NoCall
  /\ session = NoSessions

\* ------------------------------------------------------------------ queue
FreeJobs == {j \in JobIds : jobs[j].state = "none"}

NewJob == CHOOSE j \in FreeJobs : \A k \in FreeJobs : j <= k

\* a client that sends every priority above 0 to the critical queue
getQueueNameFromOne(priority) ==
  IF priority >= 1 THEN "critical"
  ELSE IF priority <= -1 THEN "low"
  ELSE "default"

\* a client without a low queue
getQueueNameNoLow(priority) ==
  IF priority >= 2 THEN "critical" ELSE "default"

\* QueueClient.getQueueName
getQueueName(priority) ==
  IF priority >= 2 THEN "critical"
  ELSE IF priority <= -1 THEN "low"
  ELSE "default"

\* QueueClient.EnqueueVideoProcessing: a new task, pending, on the queue of
\* its priority
Enqueued(j, priority) ==
  [jobs EXCEPT ![j] = [state |-> "pending", retried |-> 0,
                       priority |-> priority,
                       queue |-> getQueueName(priority), delay |-> 0]]

\* the delays of the worker's RetryDelayFunc, in minutes
delays == <<1, 5, 30>>

\* a worker that retries after one minute every time
RetryDelayFuncFlat(n) == delays[1]

\* RetryDelayFunc of the worker's asynq.Config; n: the retries so far
RetryDelayFunc(n) ==
  IF n < Len(delays) THEN delays[n + 1] ELSE delays[Len(delays)]

\* the queue's handling of a handler result: completed, or retried after
\* RetryDelayFunc(retried) until MaxRetry retries were spent, then archived
Settle(j, err) ==
  [jobs EXCEPT ![j] =
     IF ~err THEN [@ EXCEPT !.state = "completed"]
     ELSE IF @.retried < MaxRetry
          THEN [@ EXCEPT !.state = "retry", !.retried = @ + 1,
                         !.delay = RetryDelayFunc(jobs[j].retried)]
          ELSE [@ EXCEPT !.state = "archived"]]

\* the locals of an execution that has ended: its result and the progress
\* values it persisted are kept
Ended(a, result) ==
  [NoAttempt EXCEPT !.persisted = a.persisted, !.result = result]

\* return of ProcessVideo through VideoProcessingHandler.ProcessTask
Return(j, err) ==
  /\ jobs' = Settle(j, err)
  /\ att' = [att EXCEPT ![j] = Ended(@, IF err THEN "error" ELSE "ok")]

Active(j) == jobs[j].state = "active"

At(j, label) == Active(j) /\ att[j].pc = label

\* a database, queue or disk call, or a run of an external tool, succeeds,
\* or fails while the failure budget lasts
Call(ok) ==
  /\ ok \in BOOLEAN
  /\ ~ok => failures < MaxFailures
  /\ failures' = IF ok THEN failures ELSE failures + 1

\* ----------------------------------------------------------------- upload
\* UploadHandler.Upload: UploadService.UploadVideo saves the raw file and
\* creates the row, then the job is enqueued; an enqueue error is only logged
Upload ==
  /\ ~video.exists
  /\ source = NoSource
  /\ \E h \in SourceHeights, b \in BOOLEAN, ok \in BOOLEAN :
       /\ Call(ok)
       /\ source' = [height |-> h, broken |-> b]
       /\ video' = Create(video)
       /\ jobs' = IF ok THEN Enqueued(NewJob, 0) ELSE jobs
  /\ UNCHANGED <<session, call, payload, streaming, disk, att, admin>>

\* a worker takes a pending task, or a task whose retry delay has elapsed
Start(j) ==
  /\ jobs[j].state \in {"pending", "retry"}
  /\ Cardinality({k \in JobIds : Active(k)}) < MaxConcurrentJobs
  /\ jobs' = [jobs EXCEPT ![j].state = "active"]
  /\ att' = [att EXCEPT ![j] = [NoAttempt EXCEPT !.pc = "GetByID"]]
  /\ UNCHANGED <<session, call, payload, streaming, video, source, disk, admin, failures>>

\* ------------------------------------------- TranscodingService.ProcessVideo
\* totalSteps := len(qualities) + 2
totalSteps == Len(qualities) + 2

\* int(float64(i) / float64(totalSteps) * 100), i counted from 0
Progress(i) == (i * 100) \div totalSteps

\* a loop that skips no quality
NextQualityNoSkip(i, h) == i

\* the next index from i on whose quality is not skipped
\* (metadata.Height < spec.Height: continue), Len(qualities)+1 when none is
NextQuality(i, h) ==
  LET ks == {k \in i..Len(qualities) : h >= qualitySpecs[qualities[k]]}
  IN IF ks = {} THEN Len(qualities) + 1
     ELSE CHOOSE k \in ks : \A m \in ks : k <= m

\* a loop exit without the check for an empty result
LoopExitUnchecked(transcoded) == "UpdateProgressHLS"

\* if len(transcoded) == 0 { MarkAsFailed; return error }
LoopExit(transcoded) ==
  IF Len(transcoded) = 0 THEN "MarkAsFailedEmpty" ELSE "UpdateProgressHLS"

\* a loop body that puts the new quality first
AppendedInFront(transcoded, q, ok) ==
  IF ok THEN <<q>> \o transcoded ELSE transcoded

\* a loop body that appends the quality whatever the transcode returned
AppendedAlways(transcoded, q, ok) == Append(transcoded, q)

\* transcoded = append(transcoded, quality) after a successful transcode;
\* a failed one is logged and skipped (continue)
Appended(transcoded, q, ok) == IF ok THEN Append(transcoded, q) ELSE transcoded

\* the position after the loop body of index i-1: the next quality, or the
\* code after the loop
Continue(a, i) ==
  LET k == NextQuality(i, a.height)
  IN IF k <= Len(qualities)
     THEN [a EXCEPT !.pc = "transcodeVideo", !.i = k]
     ELSE [a EXCEPT !.pc = LoopExit(a.transcoded), !.i = 0]

\* the attempt j persists progress p (the error of the call is only logged)
Persist(j, p, ok, next) ==
  /\ video' = IF ok THEN UpdateProgress(video, p) ELSE video
  /\ att' = [att EXCEPT ![j] =
       [next EXCEPT !.persisted =
          IF ok /\ video.exists THEN Append(@, p) ELSE @]]

\* video, err := s.videoRepo.GetByID; the status guard
PV_GetByID(j) ==
  /\ At(j, "GetByID")
  /\ \E ok \in BOOLEAN :
       /\ Call(ok)
       /\ IF ok /\ video.exists
             /\ video.status \in {VideoStatusUploading, VideoStatusFailed}
          THEN /\ att' = [att EXCEPT ![j].pc = "UpdateStatus"]
               /\ jobs' = jobs
          ELSE Return(j, TRUE)
  /\ UNCHANGED <<session, call, payload, streaming, video, source, disk, admin>>

\* s.videoRepo.UpdateStatus(ctx, id, domain.VideoStatusProcessing)
PV_UpdateStatus(j) ==
  /\ At(j, "UpdateStatus")
  /\ \E ok \in BOOLEAN :
       /\ Call(ok)
       /\ IF ok /\ video.exists
          THEN /\ video' = UpdateStatus(video, VideoStatusProcessing)
               /\ att' = [att EXCEPT ![j].pc = "ExtractMetadata"]
               /\ jobs' = jobs
          ELSE /\ video' = video
               /\ Return(j, TRUE)
  /\ UNCHANGED <<session, call, payload, streaming, source, disk, admin>>

\* metadata, err := s.ffmpegService.ExtractMetadata(ctx, video.FilePath);
\* then s.videoRepo.UpdateDuration and s.videoRepo.UpdateResolution (errors
\* only logged), os.MkdirAll(outputDir) and the head of the transcoding loop
PV_ExtractMetadata(j) ==
  /\ At(j, "ExtractMetadata")
  /\ \E okP \in BOOLEAN, okD \in BOOLEAN, okR \in BOOLEAN, okM \in BOOLEAN :
       LET n == IF ~okP THEN 1
                ELSE (IF okD THEN 0 ELSE 1) + (IF okR THEN 0 ELSE 1)
                     + (IF okM THEN 0 ELSE 1)
           v1 == IF okD THEN UpdateDuration(video) ELSE video
           v2 == IF okR THEN UpdateResolution(v1, source.height) ELSE v1
           a == [att[j] EXCEPT !.height = source.height]
       IN /\ ~okP => okD /\ okR /\ okM
          /\ failures + n <= MaxFailures
          /\ failures' = failures + n
          /\ video' = IF okP THEN v2 ELSE video
          /\ att' = [att EXCEPT ![j] =
               IF okP /\ okM THEN Continue(a, 1)
               ELSE [@ EXCEPT !.pc = "MarkAsFailed"]]
  /\ UNCHANGED <<session, call, payload, streaming, source, disk, jobs, admin>>

\* s.videoRepo.MarkAsFailed(ctx, id) (error ignored); return error
PV_MarkAsFailed(j) ==
  /\ Active(j)
  /\ att[j].pc \in {"MarkAsFailed", "MarkAsFailedEmpty"}
  /\ \E ok \in BOOLEAN :
       /\ Call(ok)
       /\ video' = IF ok THEN MarkAsFailed(video) ELSE video
  /\ Return(j, TRUE)
  /\ UNCHANGED <<session, call, payload, streaming, source, disk, admin>>

\* loop body: progress of index i (counted from 0) is persisted (error only
\* logged), then s.transcodeVideo; on error continue.  ffmpeg fails on every
\* quality of a source it cannot decode, and now and then on any source
PV_transcodeVideo(j) ==
  /\ At(j, "transcodeVideo")
  /\ LET q == qualities[att[j].i] IN
     \E okP \in BOOLEAN, ok \in BOOLEAN :
       LET n == (IF okP THEN 0 ELSE 1) + (IF ok \/ source.broken THEN 0 ELSE 1)
           a == [att[j] EXCEPT
                   !.transcoded = Appended(@, q, ok),
                   !.succeeded = IF ok THEN @ \cup {q} ELSE @]
       IN /\ source.broken => ~ok
          /\ failures + n <= MaxFailures
          /\ failures' = failures + n
          /\ disk' = IF ok THEN [disk EXCEPT !.mp4 = @ \cup {q}] ELSE disk
          /\ Persist(j, Progress(att[j].i - 1), okP, Continue(a, att[j].i + 1))
  /\ UNCHANGED <<session, call, payload, streaming, source, jobs, admin>>

\* hlsProgress := int(float64(len(qualities)) / float64(totalSteps) * 100) is
\* persisted (error only logged); then the loop over transcoded
PV_UpdateProgressHLS(j) ==
  /\ At(j, "UpdateProgressHLS")
  /\ \E ok \in BOOLEAN :
       /\ Call(ok)
       /\ Persist(j, Progress(Len(qualities)), ok,
                  IF Len(att[j].transcoded) > 0
                  THEN [att[j] EXCEPT !.pc = "ConvertToHLS", !.i = 1]
                  ELSE [att[j] EXCEPT !.pc = "generateThumbnail"])
  /\ UNCHANGED <<session, call, payload, streaming, source, disk, jobs, admin>>

\* one run of ffmpeg -f hls: its exit status and the files it left
HlsRuns == [exit : BOOLEAN, playlist : BOOLEAN, segments : BOOLEAN]

NormalRun(r) == r.exit /\ r.playlist /\ r.segments

\* the disk after a run of the packager for quality q (ffmpeg -y overwrites
\* the files of an earlier run); rewritten: qualities whose segment files
\* were written over
Wrote(d, q, r) ==
  [d EXCEPT !.playlist = IF r.playlist THEN @ \cup {q} ELSE @,
            !.segments = IF r.segments THEN @ \cup {q} ELSE @,
            !.rewritten = IF r.segments /\ q \in d.segments
                          THEN @ \cup {q} ELSE @]

\* a ConvertToHLS that trusts the packager's exit status
HLSUnverified(d, q) == TRUE

\* ConvertToHLS's checks after the run: a segment_*.ts and the playlist exist
HLSVerified(d, q) == q \in d.segments /\ q \in d.playlist

\* s.ConvertToHLS for the i-th transcoded quality: MkdirAll, the packager,
\* once more after a failure, the checks; on error continue
PV_ConvertToHLS(j) ==
  /\ At(j, "ConvertToHLS")
  /\ LET q == att[j].transcoded[att[j].i]
         last == att[j].i = Len(att[j].transcoded)
         next(hls) == [att[j] EXCEPT
                         !.hlsQualities = hls,
                         !.i = IF last THEN 0 ELSE @ + 1,
                         !.pc = IF ~last THEN "ConvertToHLS"
                                ELSE IF Len(hls) > 0 THEN "CreateMaster"
                                ELSE "generateThumbnail"]
     IN \E okDir \in BOOLEAN, r1 \in HlsRuns, r2 \in HlsRuns :
          LET second == okDir /\ ~r1.exit
              n == IF ~okDir THEN 1
                   ELSE (IF NormalRun(r1) THEN 0 ELSE 1)
                        + (IF second /\ ~NormalRun(r2) THEN 1 ELSE 0)
              d1 == IF okDir THEN Wrote(disk, q, r1) ELSE disk
              d2 == IF second THEN Wrote(d1, q, r2) ELSE d1
              err == ~okDir \/ (second /\ ~r2.exit) \/ ~HLSVerified(d2, q)
          IN /\ ~okDir => NormalRun(r1)
             /\ ~second => r2 = r1
             /\ failures + n <= MaxFailures
             /\ failures' = failures + n
             /\ disk' = d2
             /\ att' = [att EXCEPT ![j] =
                   next(IF err THEN att[j].hlsQualities
                        ELSE Append(att[j].hlsQualities, q))]
  /\ UNCHANGED <<session, call, payload, streaming, video, source, jobs, admin>>

\* a master manifest that lists every given quality
MasterEntriesAll(d, qs) == qs

\* the entries GenerateMasterPlaylist prints: the given qualities whose
\* variant playlist exists
MasterEntries(d, qs) == SelectSeq(qs, LAMBDA q : q \in d.playlist)

\* GenerateMasterPlaylist: os.Create(masterPath) truncates the file
PV_CreateMaster(j) ==
  /\ At(j, "CreateMaster")
  /\ \E ok \in BOOLEAN :
       /\ Call(ok)
       /\ disk' = IF ok THEN [disk EXCEPT !.master = <<>>] ELSE disk
       /\ att' = [att EXCEPT ![j].pc = IF ok THEN "UpdateHLSInfo"
                                            ELSE "generateThumbnail"]
  /\ UNCHANGED <<session, call, payload, streaming, video, source, jobs, admin>>

\* GenerateMasterPlaylist: the header and the entries are printed; then
\* s.videoRepo.UpdateHLSInfo(ctx, id, hlsMasterPath, true) (error only logged)
PV_UpdateHLSInfo(j) ==
  /\ At(j, "UpdateHLSInfo")
  /\ \E ok \in BOOLEAN :
       /\ Call(ok)
       /\ video' = IF ok THEN UpdateHLSInfo(video) ELSE video
  /\ disk' = [disk EXCEPT !.master = MasterEntries(disk, att[j].hlsQualities)]
  /\ att' = [att EXCEPT ![j].pc = "generateThumbnail"]
  /\ UNCHANGED <<session, call, payload, streaming, source, jobs, admin>>

\* a ProcessVideo that gives the attempt up when the thumbnail fails
AfterThumbnailFatal(err) == IF err THEN "MarkAsFailed" ELSE "MarkAsReady"

\* ProcessVideo after s.generateThumbnail: an error is logged and
\* thumbnailPath = "", then MarkAsReady follows
AfterThumbnail(err) == "MarkAsReady"

\* thumbnailProgress := int(float64(len(qualities)+1) / float64(totalSteps) * 100)
\* is persisted (error only logged), then s.generateThumbnail; on error
\* thumbnailPath = ""
PV_generateThumbnail(j) ==
  /\ At(j, "generateThumbnail")
  /\ \E okP \in BOOLEAN, ok \in BOOLEAN :
       LET n == (IF okP THEN 0 ELSE 1) + (IF ok THEN 0 ELSE 1)
       IN /\ failures + n <= MaxFailures
          /\ failures' = failures + n
          /\ disk' = IF ok THEN [disk EXCEPT !.thumbnail = TRUE] ELSE disk
          /\ Persist(j, Progress(Len(qualities) + 1), okP,
                     [att[j] EXCEPT !.pc = AfterThumbnail(~ok),
                        !.thumb = IF ok THEN "thumbnails/id.jpg" ELSE ""])
  /\ UNCHANGED <<session, call, payload, streaming, source, jobs, admin>>

\* s.videoRepo.MarkAsReady(ctx, id, transcoded, thumbnailPath)
PV_MarkAsReady(j) ==
  /\ At(j, "MarkAsReady")
  /\ \E ok \in BOOLEAN :
       /\ Call(ok)
       /\ IF ok /\ video.exists
          THEN /\ video' = MarkAsReady(video, att[j].transcoded, att[j].thumb)
               /\ att' = [att EXCEPT ![j].pc = "UpdateProgress100"]
               /\ jobs' = jobs
          ELSE /\ video' = video
               /\ Return(j, TRUE)
  /\ UNCHANGED <<session, call, payload, streaming, source, disk, admin>>

\* s.videoRepo.UpdateProgress(ctx, id, 100) (error only logged); return nil
PV_UpdateProgress100(j) ==
  /\ At(j, "UpdateProgress100")
  /\ \E ok \in BOOLEAN :
       /\ Call(ok)
       /\ Persist(j, 100, ok, Ended(att[j], "ok"))
  /\ jobs' = Settle(j, FALSE)
  /\ UNCHANGED <<session, call, payload, streaming, source, disk, admin>>

ProcessVideo(j) ==
  \/ PV_GetByID(j)
  \/ PV_UpdateStatus(j)
  \/ PV_ExtractMetadata(j)
  \/ PV_MarkAsFailed(j)
  \/ PV_transcodeVideo(j)
  \/ PV_UpdateProgressHLS(j)
  \/ PV_ConvertToHLS(j)
  \/ PV_CreateMaster(j)
  \/ PV_UpdateHLSInfo(j)
  \/ PV_generateThumbnail(j)
  \/ PV_MarkAsReady(j)
  \/ PV_UpdateProgress100(j)

\* the worker process dies in the middle of an attempt; the queue recovers
\* the task when its lease expires and retries or archives it
Interrupt(j) ==
  /\ Active(j)
  /\ failures < MaxFailures
  /\ failures' = failures + 1
  /\ jobs' = Settle(j, TRUE)
  /\ att' = [att EXCEPT ![j] = Ended(@, "interrupted")]
  /\ UNCHANGED <<session, call, payload, streaming, video, source, disk, admin>>

\* ------------------------------------------------- AdminHandler.RetryVideo
\* the responses of the handler: 200, 400 BAD_REQUEST and 500
Answered == {"200", "400", "500"}

\* no retry request is under way
AdminAtRest == admin \in {"idle"} \cup Answered

\* video, err := h.videoRepo.GetByID, of a video whose status is failed
RetryVideo_GetByID ==
  /\ AdminAtRest
  /\ FreeJobs # {}
  /\ video.exists
  /\ video.status = VideoStatusFailed
  /\ admin' = "UpdateStatus"
  /\ UNCHANGED <<session, call, payload, streaming, video, source, disk, jobs, att, failures>>

\* h.videoRepo.UpdateStatus(ctx, videoID, domain.VideoStatusUploading)
RetryVideo_UpdateStatus ==
  /\ admin = "UpdateStatus"
  /\ \E ok \in BOOLEAN :
       /\ Call(ok)
       /\ video' = IF ok THEN UpdateStatus(video, VideoStatusUploading) ELSE video
       /\ admin' = IF ok /\ video.exists THEN "Enqueue" ELSE "500"
  /\ UNCHANGED <<session, call, payload, streaming, source, disk, jobs, att>>

\* h.queueClient.EnqueueVideoProcessing(ctx, videoID.String(), 1)
RetryVideo_Enqueue ==
  /\ admin = "Enqueue"
  /\ \E ok \in BOOLEAN :
       /\ Call(ok)
       /\ jobs' = IF ok THEN Enqueued(NewJob, 1) ELSE jobs
       /\ admin' = IF ok THEN "200" ELSE "500"
  /\ UNCHANGED <<session, call, payload, streaming, video, source, disk, att>>

RetryVideo == RetryVideo_GetByID \/ RetryVideo_UpdateStatus \/ RetryVideo_Enqueue

\* if video.Status != domain.VideoStatusFailed:
\* response.BadRequest(c, "Only failed videos can be retried")
RetryVideo_Rejected ==
  /\ AdminAtRest
  /\ video.exists
  /\ video.status # VideoStatusFailed
  /\ admin' = "400"
  /\ UNCHANGED <<session, call, payload, streaming, video, source, disk, jobs, att, failures>>

\* UploadHandler.DeleteVideo: the row is deleted, the files stay
DeleteVideo ==
  /\ video.exists
  /\ \E ok \in BOOLEAN :
       /\ Call(ok)
       /\ video' = IF ok THEN NoVideo ELSE video
  /\ UNCHANGED <<session, call, payload, streaming, source, disk, jobs, att, admin>>

\* the payloads of the tasks that reach the queue from other producers
RequestedLists == {<<"360p">>, <<"360p", "480p">>}

\* a video:process task for the video whose payload requests the qualities
\* qs: ParseVideoProcessingPayload accepts every list (a job id is left to
\* an admin retry that is under way)
EnqueueTask ==
  /\ video.exists
  /\ Cardinality(FreeJobs) > (IF AdminAtRest THEN 0 ELSE 1)
  /\ \E qs \in RequestedLists :
       /\ jobs' = Enqueued(NewJob, 0)
       /\ payload' = [payload EXCEPT ![NewJob] = qs]
  /\ UNCHANGED <<session, call, streaming, video, source, disk, att, admin, failures>>

\* the upload, the workers and the admin retry
Next ==
  \/ Upload
  \/ \E j \in JobIds : Start(j)
  \/ \E j \in JobIds : ProcessVideo(j)
  \/ \E j \in JobIds : Interrupt(j)
  \/ RetryVideo

Spec == Init /\ [][Next]_vars

\* the workers keep taking the tasks that are due and every call and
\* subprocess of a running attempt returns
FairSpec ==
  /\ Init
  /\ [][Next]_vars
  /\ \A j \in JobIds :
       WF_vars(Start(j)) /\ WF_vars(ProcessVideo(j))

\* the pipeline with the deletion of the video and with tasks of other
\* producers
ExtNext == Next \/ DeleteVideo \/ EnqueueTask

ExtSpec == Init /\ [][ExtNext]_vars

\* the upload, the workers and the retry requests, for a video that is
\* failed and for one that is not; the worker processes stay up
AdminNext ==
  \/ Upload
  \/ \E j \in JobIds : Start(j)
  \/ \E j \in JobIds : ProcessVideo(j)
  \/ RetryVideo
  \/ RetryVideo_Rejected

AdminSpec == Init /\ [][AdminNext]_vars

\* ------------------------------------------------------- StreamingHandler
\* os.ReadFile of the playlist of target t: the master manifest as it is on
\* disk, or the variant playlist of quality t
FileOf(d, t) ==
  IF t = "master" THEN d.master
  ELSE IF t \in d.playlist THEN <<t, "playlist">> ELSE NoFile

\* the response of a request
Responded(req, code, body) ==
  [req EXCEPT !.pc = "done", !.code = code, !.body = body, !.content = NoKey]

\* a handler for which an error of the cache fails the request
AfterCacheGetStrict(req, ok, cached) ==
  IF ~ok THEN Responded(req, 500, NoKey)
  ELSE IF cached # NoKey /\ cached # <<>> THEN Responded(req, 200, cached)
  ELSE [req EXCEPT !.pc = "ReadFile"]

\* cached, err := h.redisClient.Get(...).Result();
\* if err == nil && cached != "" { h.servePlaylistContent(c, cached); return }
AfterCacheGet(req, ok, cached) ==
  IF ok /\ cached # NoKey /\ cached # <<>> THEN Responded(req, 200, cached)
  ELSE [req EXCEPT !.pc = "ReadFile"]

\* a GET of master.m3u8 or of <quality>/playlist.m3u8 arrives
Request(r) ==
  /\ readers[r].pc \in {"idle", "done"}
  /\ \E t \in Targets :
       readers' = [readers EXCEPT ![r] =
          [NoRequest EXCEPT !.pc = "GetByID", !.target = t,
                            !.afterClear = (clear.pc = "done")]]
  /\ UNCHANGED <<session, call, video, source, disk, jobs, att, admin, failures, payload,
                 cache, clear>>

\* video, err := h.videoRepo.GetByID; the HLSReady (and HLSMasterPath) check
Serve_GetByID(r) ==
  /\ readers[r].pc = "GetByID"
  /\ \E ok \in BOOLEAN :
       /\ Call(ok)
       /\ readers' = [readers EXCEPT ![r] =
            IF ~ok THEN Responded(@, 500, NoKey)
            ELSE IF ~video.exists THEN Responded(@, 404, NoKey)
            ELSE IF ~video.hlsReady
                    \/ (@.target = "master" /\ ~video.hlsMasterPath)
                 THEN Responded(@, 404, NoKey)
            ELSE [@ EXCEPT !.pc = "CacheGet", !.sawReady = TRUE]]
  /\ UNCHANGED <<session, call, video, source, disk, jobs, att, admin, payload, cache, clear>>

\* h.redisClient.Get(ctx, cacheKey)
Serve_CacheGet(r) ==
  /\ readers[r].pc = "CacheGet"
  /\ \E ok \in BOOLEAN :
       /\ Call(ok)
       /\ readers' = [readers EXCEPT ![r] =
            AfterCacheGet(@, ok, cache[@.target])]
  /\ UNCHANGED <<session, call, video, source, disk, jobs, att, admin, payload, cache, clear>>

\* content, err := os.ReadFile(path); on error 404 PLAYLIST_NOT_FOUND
Serve_ReadFile(r) ==
  /\ readers[r].pc = "ReadFile"
  /\ LET content == FileOf(disk, readers[r].target) IN
       readers' = [readers EXCEPT ![r] =
          IF content = NoFile THEN Responded(@, 404, NoKey)
          ELSE [@ EXCEPT !.pc = "CacheSet", !.content = content]]
  /\ UNCHANGED <<session, call, video, source, disk, jobs, att, admin, failures, payload,
                 cache, clear>>

\* h.redisClient.Set(ctx, cacheKey, contentStr, 1*time.Hour), its result
\* dropped; h.servePlaylistContent(c, contentStr)
Serve_CacheSet(r) ==
  /\ readers[r].pc = "CacheSet"
  /\ \E ok \in BOOLEAN :
       /\ Call(ok)
       /\ cache' = IF ok THEN [cache EXCEPT ![readers[r].target] =
                                 readers[r].content]
                   ELSE cache
       /\ readers' = [readers EXCEPT ![r] = Responded(@, 200, @.content)]
  /\ UNCHANGED <<session, call, video, source, disk, jobs, att, admin, payload, clear>>

ServePlaylist(r) ==
  \/ Request(r)
  \/ Serve_GetByID(r)
  \/ Serve_CacheGet(r)
  \/ Serve_ReadFile(r)
  \/ Serve_CacheSet(r)

\* a scan whose pattern matches the keys of every video
ScanAllKeys(c) == {k \in CacheKeys : c[k] # NoKey}

\* pattern := fmt.Sprintf("playlist:%s:*", videoID.String()): the keys of
\* the video that are in the cache
ScanKeys(c) == {k \in Targets : c[k] # NoKey}

\* ClearPlaylistCache: h.redisClient.Scan(ctx, 0, "playlist:<id>:*", 0); a
\* scan error is logged after the loop.  seen: the master manifest on disk
\* when the invalidation began
Clear_Scan ==
  /\ clear.pc = "idle"
  /\ \E ok \in BOOLEAN :
       /\ Call(ok)
       /\ LET keys == IF ok THEN ScanKeys(cache) ELSE {}
          IN clear' = [NoClear EXCEPT
                         !.pc = IF keys = {} THEN "done" ELSE "Del",
                         !.keys = keys, !.seen = disk.master,
                         !.present = {t \in Targets : cache[t] # NoKey}]
  /\ UNCHANGED <<session, call, video, source, disk, jobs, att, admin, payload, cache,
                 readers>>

\* the loop body: h.redisClient.Del(ctx, iter.Val()), an error is logged,
\* else deletedCount++; after the last key the response 200 carries
\* "deleted": deletedCount
Clear_Del ==
  /\ clear.pc = "Del"
  /\ \E k \in clear.keys, ok \in BOOLEAN :
       /\ Call(ok)
       /\ cache' = IF ok THEN [cache EXCEPT ![k] = NoKey] ELSE cache
       /\ clear' = [clear EXCEPT
                      !.keys = @ \ {k},
                      !.pc = IF clear.keys = {k} THEN "done" ELSE "Del",
                      !.removed = IF ok THEN @ \cup {k} ELSE @,
                      !.deleted = IF ok THEN @ + 1 ELSE @]
  /\ UNCHANGED <<session, call, video, source, disk, jobs, att, admin, payload, readers>>

ClearPlaylistCache == Clear_Scan \/ Clear_Del

\* a state the pipeline reaches with a 480 source: the run of job 1 packaged
\* 360p only, wrote the master manifest and marked the video ready; the
\* run of job 2, past the guard at the same time, has packaged 360p and
\* 480p and is about to write the master manifest again.  The master
\* playlist of another video is in the cache
StreamInit ==
  /\ video = [exists |-> TRUE, status |-> VideoStatusReady, progress |-> 66,
              qualities |-> <<"360p">>, thumbnail |-> "thumbnails/id.jpg",
              processedAt |-> TRUE, hlsReady |-> TRUE, hlsMasterPath |-> TRUE,
              duration |-> TRUE, resolution |-> 480]
  /\ source = [height |-> 480, broken |-> FALSE]
  /\ disk = [mp4 |-> {"360p", "480p"}, playlist |-> {"360p", "480p"},
             segments |-> {"360p", "480p"}, master |-> <<"360p">>,
             thumbnail |-> TRUE, rewritten |-> {"360p"}]
  /\ jobs = [j \in JobIds |->
               IF j = 1
               THEN [state |-> "completed", retried |-> 1, priority |-> 0,
                     queue |-> "default", delay |-> 1]
               ELSE IF j = 2
               THEN [state |-> "active", retried |-> 0, priority |-> 1,
                     queue |-> "default", delay |-> 0]
               ELSE NoJob]
  /\ att = [j \in JobIds |->
              IF j = 1
              THEN [NoAttempt EXCEPT !.persisted = <<0, 16, 66, 83, 100>>,
                                     !.result = "ok"]
              ELSE IF j = 2
              THEN [NoAttempt EXCEPT !.pc = "CreateMaster", !.height = 480,
                                     !.transcoded = <<"360p", "480p">>,
                                     !.hlsQualities = <<"360p", "480p">>,
                                     !.persisted = <<0, 16, 66>>,
                                     !.succeeded = {"360p", "480p"}]
              ELSE NoAttempt]
  /\ admin = "idle"
  /\ failures = 0
  /\ payload = [j \in JobIds |-> qualities]
  /\ cache = [k \in CacheKeys |->
                IF k \in OtherKeys THEN <<"other">> ELSE NoKey]
  /\ readers = [r \in ReaderIds |-> NoRequest]
  /\ clear = NoClear
  /\ call = NoCall
  /\ session = NoSessions

\* playlist requests and a cache invalidation while the master manifest is
\* written again
StreamNext ==
  \/ \E j \in JobIds : PV_CreateMaster(j)
  \/ \E j \in JobIds : PV_UpdateHLSInfo(j)
  \/ \E r \in ReaderIds : ServePlaylist(r)
  \/ ClearPlaylistCache

StreamSpec == StreamInit /\ [][StreamNext]_vars

\* ------------------------ functions and handlers looked at on their own
\* the state of the pipeline, of the queue and of the streaming handlers
program ==
  <<video, source, disk, jobs, att, admin, failures, payload, cache, readers,
    clear, session>>

QualityNames == {qualities[k] : k \in 1..Len(qualities)}

\* GenerateMasterPlaylist: bandwidthMap
bandwidthMap ==
  [q \in QualityNames |->
     CASE q = "360p" -> 800000
       [] q = "480p" -> 1400000
       [] q = "720p" -> 2800000
       [] q = "1080p" -> 5000000]

\* GenerateMasterPlaylist: resolutionMap
resolutionMap ==
  [q \in QualityNames |->
     CASE q = "360p" -> "640x360"
       [] q = "480p" -> "854x480"
       [] q = "720p" -> "1280x720"
       [] q = "1080p" -> "1920x1080"]

\* fmt.Fprintf(file, "#EXT-X-STREAM-INF:BANDWIDTH=%d,RESOLUTION=%s\n", ...)
StreamInf(q) ==
  [tag |-> "#EXT-X-STREAM-INF", BANDWIDTH |-> bandwidthMap[q],
   RESOLUTION |-> resolutionMap[q]]

\* fmt.Fprintf(file, "%s/playlist.m3u8\n", quality)
VariantUri(q) == <<q, "/playlist.m3u8">>

\* the two lines of every entry, in the order of the loop
RECURSIVE MasterLines(_)
MasterLines(es) ==
  IF es = <<>> THEN <<>>
  ELSE <<StreamInf(Head(es)), VariantUri(Head(es))>> \o MasterLines(Tail(es))

\* TranscodingService.GenerateMasterPlaylist: the lines of master.m3u8 for
\* the qualities qs and the variant playlists on disk d
GenerateMasterPlaylist(d, qs) ==
  <<"#EXTM3U", "#EXT-X-VERSION:3">> \o MasterLines(MasterEntries(d, qs))

\* the lists of distinct qualities, in every order
QualityLists ==
  {qs \in UNION {[1..n -> QualityNames] : n \in 0..Len(qualities)} :
     \A k \in 1..Len(qs), m \in 1..Len(qs) : k # m => qs[k] # qs[m]}

\* a call of GenerateMasterPlaylist
WriteMaster ==
  /\ call = NoCall
  /\ \E qs \in QualityLists, ps \in SUBSET QualityNames :
       call' = [op |-> "GenerateMasterPlaylist", qualities |-> qs,
                playlist |-> ps,
                out |-> GenerateMasterPlaylist([playlist |-> ps], qs)]
  /\ UNCHANGED program

\* getEnv("STORAGE_TRANSCODED_PATH", "./web/uploads/transcoded")
DefaultTranscodedPath == "./web/uploads/transcoded"

\* the directory in the paths of the streaming handlers
ServedRoot == "./web/uploads/processed"

\* the settings of STORAGE_TRANSCODED_PATH: unset, and the served directory
TranscodedPaths == {DefaultTranscodedPath, ServedRoot}

\* the files under the directory of a video that an attempt writes and the
\* endpoints serve
ServedFiles ==
  {<<"hls", "master.m3u8">>} \cup
  UNION {{<<"hls", q, "playlist.m3u8">>, <<"hls", q, "segment_000.ts">>,
          <<q, ".mp4">>} : q \in QualityNames}

\* filepath.Join(s.storage.TranscodedPath, videoID, ...): where ProcessVideo,
\* ConvertToHLS and GenerateMasterPlaylist write a file
WrittenPath(transcodedPath, id, file) == <<transcodedPath, id>> \o file

\* filepath.Join("./web/uploads/processed", videoID.String(), ...): where
\* the handlers read a file
ReadPath(id, file) == <<ServedRoot, id>> \o file

\* the first GET of a file of a video after an attempt has written all its
\* files and set hls_ready and ready: os.ReadFile or os.Stat of the path
FirstGet ==
  /\ call = NoCall
  /\ \E root \in TranscodedPaths, file \in ServedFiles :
       LET onDisk == {WrittenPath(root, "id", f) : f \in ServedFiles}
       IN call' = [op |-> "FirstGet", transcodedPath |-> root,
                   file |-> file,
                   written |-> WrittenPath(root, "id", file),
                   read |-> ReadPath("id", file),
                   code |-> IF ReadPath("id", file) \in onDisk
                            THEN 200 ELSE 404]
  /\ UNCHANGED program

\* the ids of the requests: the id of the video, a UUID of no row, and a
\* text that is no UUID
RequestIds == {"id", "gone", "not-a-uuid"}

\* uuid.Parse(c.Param("id")) returns no error
uuidParse(id) == id \in {"id", "gone"}

\* the quality parameters of the requests
RequestQualities == QualityNames \cup {"240p", "4k", ""}

isValidQuality(quality) == quality \in {"360p", "480p", "720p", "1080p"}

Digits == {"0", "1", "9"}

SegmentPrefix == <<"s", "e", "g", "m", "e", "n", "t", "_">>

SegmentSuffix == <<".", "t", "s">>

\* the segment parameters of the requests, character by character:
\* segment_001.ts, segment_999.ts, segment_01.ts, segment_0001.ts,
\* segment_0a1.ts, segment_001xts, xsegment_001.ts, segment_001.tsx,
\* segment_001.ts followed by a line feed, ../master.m3u8, and the empty name
SegmentNames ==
  {SegmentPrefix \o <<"0", "0", "1">> \o SegmentSuffix,
   SegmentPrefix \o <<"9", "9", "9">> \o SegmentSuffix,
   SegmentPrefix \o <<"0", "1">> \o SegmentSuffix,
   SegmentPrefix \o <<"0", "0", "0", "1">> \o SegmentSuffix,
   SegmentPrefix \o <<"0", "a", "1">> \o SegmentSuffix,
   SegmentPrefix \o <<"0", "0", "1">> \o <<"x", "t", "s">>,
   <<"x">> \o SegmentPrefix \o <<"0", "0", "1">> \o SegmentSuffix,
   SegmentPrefix \o <<"0", "0", "1">> \o SegmentSuffix \o <<"x">>,
   SegmentPrefix \o <<"0", "0", "1">> \o SegmentSuffix \o <<"\n">>,
   <<".", ".", "/", "m", "a", "s", "t", "e", "r", ".", "m", "3", "u", "8">>,
   <<>>}

\* a pattern that is not anchored at its end
isValidSegmentNameOpenEnded(segment) ==
  /\ Len(segment) >= Len(SegmentPrefix) + 3 + Len(SegmentSuffix)
  /\ SubSeq(segment, 1, 8) = SegmentPrefix
  /\ \A k \in 9..11 : segment[k] \in Digits
  /\ SubSeq(segment, 12, 14) = SegmentSuffix

\* regexp.MatchString(`^segment_\d{3}\.ts$`, segment)
isValidSegmentName(segment) ==
  /\ Len(segment) = Len(SegmentPrefix) + 3 + Len(SegmentSuffix)
  /\ SubSeq(segment, 1, 8) = SegmentPrefix
  /\ \A k \in 9..11 : segment[k] \in Digits
  /\ SubSeq(segment, 12, 14) = SegmentSuffix

\* the rows that GetByID returns for the id of the video
VideoRows ==
  {[Create(NoVideo) EXCEPT !.status = s, !.qualities = qs, !.hlsReady = h,
                           !.hlsMasterPath = h] :
     s \in {VideoStatusUploading, VideoStatusProcessing, VideoStatusReady,
            VideoStatusFailed},
     qs \in {<<>>, <<"360p">>, <<"360p", "480p">>},
     h \in BOOLEAN}

\* a response, with the stores the handler has called before it
Response(code, error, accessed) ==
  [code |-> code, error |-> error, accessed |-> accessed]

\* the responses after h.videoRepo.GetByID that are the same in every
\* streaming handler; "" when the handler goes on
AfterGetByID(id, ok) ==
  IF ~ok THEN Response(500, "INTERNAL_ERROR", <<"repository">>)
  ELSE IF id # "id" THEN Response(404, "NOT_FOUND", <<"repository">>)
  ELSE Response(0, "", <<"repository">>)

\* ServeMasterPlaylist and ServeQualityPlaylist up to the call of GetByID:
\* the validation error, or code 0 when the handler goes on to GetByID
ServePlaylistChecks(id, target) ==
  IF ~uuidParse(id) THEN Response(400, "VALIDATION_ERROR", <<>>)
  ELSE IF target # "master" /\ ~isValidQuality(target)
  THEN Response(400, "VALIDATION_ERROR", <<>>)
  ELSE Response(0, "", <<>>)

\* StreamingHandler.ServeSegment; exists: os.Stat(segmentPath) finds the file
ServeSegment(id, quality, segment, v, exists, ok) ==
  IF ~uuidParse(id) THEN Response(400, "VALIDATION_ERROR", <<>>)
  ELSE IF ~isValidQuality(quality)
  THEN Response(400, "VALIDATION_ERROR", <<>>)
  ELSE IF ~isValidSegmentName(segment)
  THEN Response(400, "VALIDATION_ERROR", <<>>)
  ELSE IF AfterGetByID(id, ok).code # 0 THEN AfterGetByID(id, ok)
  ELSE IF ~v.hlsReady
  THEN Response(404, "HLS_NOT_READY", <<"repository">>)
  ELSE IF ~exists
  THEN Response(404, "SEGMENT_NOT_FOUND", <<"repository", "disk">>)
  ELSE Response(200, "", <<"repository", "disk">>)

\* a handler that serves every quality whose file is on disk
qualityFoundAlways(v, quality) == TRUE

\* for _, q := range video.AvailableQualities { if q == quality ... }
qualityFound(v, quality) ==
  \E k \in 1..Len(v.qualities) : v.qualities[k] = quality

\* StreamingHandler.ServeMP4Fallback; exists: os.Stat(mp4Path) finds the file
ServeMP4Fallback(id, quality, v, exists, ok) ==
  IF ~uuidParse(id) THEN Response(400, "VALIDATION_ERROR", <<>>)
  ELSE IF ~isValidQuality(quality)
  THEN Response(400, "VALIDATION_ERROR", <<>>)
  ELSE IF AfterGetByID(id, ok).code # 0 THEN AfterGetByID(id, ok)
  ELSE IF v.status # VideoStatusReady
  THEN Response(404, "VIDEO_NOT_READY", <<"repository">>)
  ELSE IF ~qualityFound(v, quality)
  THEN Response(400, "VALIDATION_ERROR", <<"repository">>)
  ELSE IF ~exists
  THEN Response(404, "FILE_NOT_FOUND", <<"repository", "disk">>)
  ELSE Response(200, "", <<"repository", "disk">>)

\* a handler that serves what is cached or on disk whatever the record says
HLSNotReadyIgnored(v) == FALSE

\* !video.HLSReady || video.HLSMasterPath == nil
HLSNotReady(v) == ~v.hlsReady \/ ~v.hlsMasterPath

\* StreamingHandler.ServeMasterPlaylist; v: the row of the video, ok: GetByID
\* returns no other error, okCache and cached: the result of the cache's
\* Get, content: the master file on disk
ServeMasterPlaylist(id, v, ok, okCache, cached, content) ==
  IF ServePlaylistChecks(id, "master").code # 0
  THEN ServePlaylistChecks(id, "master")
  ELSE IF AfterGetByID(id, ok).code # 0 THEN AfterGetByID(id, ok)
  ELSE IF HLSNotReady(v)
  THEN Response(404, "HLS_NOT_READY", <<"repository">>)
  ELSE IF okCache /\ cached # NoKey /\ cached # <<>>
  THEN Response(200, "", <<"repository", "cache">>)
  ELSE IF content = NoFile
  THEN Response(404, "PLAYLIST_NOT_FOUND", <<"repository", "cache", "disk">>)
  ELSE Response(200, "", <<"repository", "cache", "disk", "cache">>)

\* a GET of master.m3u8; the cache holds nothing, the empty string or a
\* manifest under playlist:<id>:master, and the master file is on disk or not
GetMaster ==
  /\ call = NoCall
  /\ \E id \in RequestIds, v \in VideoRows, ok \in BOOLEAN,
        okCache \in BOOLEAN, cached \in {NoKey, <<>>, <<"#EXTM3U">>},
        content \in {NoFile, <<"#EXTM3U">>} :
       call' = [op |-> "GetMaster", id |-> id, video |-> v, ok |-> ok,
                cached |-> IF okCache THEN cached ELSE NoKey,
                content |-> content,
                out |-> ServeMasterPlaylist(id, v, ok, okCache, cached,
                                            content)]
  /\ UNCHANGED program

\* a GET of master.m3u8 or of <quality>/playlist.m3u8, up to GetByID
GetPlaylist ==
  /\ call = NoCall
  /\ \E id \in RequestIds, t \in {"master"} \cup RequestQualities :
       call' = [op |-> IF t = "master" THEN "ServeMasterPlaylist"
                       ELSE "ServeQualityPlaylist",
                id |-> id, quality |-> t, segment |-> <<>>,
                out |-> ServePlaylistChecks(id, t)]
  /\ UNCHANGED program

\* a GET of <quality>/<segment>
GetSegment ==
  /\ call = NoCall
  /\ \E id \in RequestIds, q \in RequestQualities, seg \in SegmentNames,
        v \in VideoRows, exists \in BOOLEAN, ok \in BOOLEAN :
       call' = [op |-> "ServeSegment", id |-> id, quality |-> q,
                segment |-> seg, video |-> v, exists |-> exists,
                out |-> ServeSegment(id, q, seg, v, exists, ok)]
  /\ UNCHANGED program

\* a GET of stream/<quality>
GetMP4 ==
  /\ call = NoCall
  /\ \E id \in RequestIds, q \in RequestQualities, v \in VideoRows,
        exists \in BOOLEAN, ok \in BOOLEAN :
       call' = [op |-> "ServeMP4Fallback", id |-> id, quality |-> q,
                segment |-> <<>>, video |-> v, exists |-> exists,
                out |-> ServeMP4Fallback(id, q, v, exists, ok)]
  /\ UNCHANGED program

\* ValidateTitle: len(title) > 255
MaxTitleLength == 255

\* ValidateDescription: len(description) > 5000
MaxDescriptionLength == 5000

\* ValidateVideoFile: header.Size < 1024
MinFileSize == 1024

\* s.config.MaxUploadSize, the configured maximum: STORAGE_MAX_FILE_SIZE is
\* set to 1 MiB
MaxFileSize == 1048576

allowedExtensions == {".mp4", ".mov", ".avi", ".mkv", ".webm"}

\* videoMagicBytes: mp4 (a 24-byte ftyp box), webm (EBML), avi (RIFF)
videoMagicBytes ==
  {<<0, 0, 0, 24, 102, 116, 121, 112>>, <<26, 69, 223, 163>>,
   <<82, 73, 70, 70>>}

\* isVideoFile
isVideoFile(buf) ==
  /\ Len(buf) >= 8
  /\ \E magic \in videoMagicBytes :
       /\ Len(buf) >= Len(magic)
       /\ \A i \in 1..Len(magic) : buf[i] = magic[i]

\* strings.ToLower(filepath.Ext(header.Filename)) of the file names
\* a.mp4, a.MP4, a.mkv, a.exe and a
LowerExt(filename) ==
  CASE filename = "a.mp4" -> ".mp4"
    [] filename = "a.MP4" -> ".mp4"
    [] filename = "a.mkv" -> ".mkv"
    [] filename = "a.exe" -> ".exe"
    [] filename = "a" -> ""

Filenames == {"a.mp4", "a.MP4", "a.mkv", "a.exe", "a"}

\* the first bytes of the uploaded files: an mp4 with a 24-byte ftyp box, an
\* mp4 with a 32-byte ftyp box, a webm, an avi, a text, a file of 4 bytes
FileHeads ==
  {<<0, 0, 0, 24, 102, 116, 121, 112>>, <<0, 0, 0, 32, 102, 116, 121, 112>>,
   <<26, 69, 223, 163, 1, 0, 0, 0>>, <<82, 73, 70, 70, 0, 0, 0, 0>>,
   <<104, 101, 108, 108, 111, 32, 119, 111>>, <<26, 69, 223, 163>>}

\* the lengths in bytes of the trimmed titles and descriptions and the
\* sizes of the uploaded files
TitleLengths == {0, 1, MaxTitleLength, MaxTitleLength + 1}

DescriptionLengths == {0, MaxDescriptionLength, MaxDescriptionLength + 1}

FileSizes == {MinFileSize - 1, MinFileSize, MaxFileSize, MaxFileSize + 1}

\* the response of an upload and what it leaves behind: the row, the raw
\* file and the task
Uploaded(code, error, stored, job) ==
  [code |-> code, error |-> error, row |-> stored, rawFile |-> stored,
   job |-> job]

\* UploadHandler.Upload with UploadService.UploadVideo and
\* validator.ValidateTitle, ValidateDescription and ValidateVideoFile;
\* okCreate, okEnqueue: videoRepo.Create and EnqueueVideoProcessing succeed
UploadVideo(title, description, size, filename, head, okCreate, okEnqueue) ==
  IF title = 0 THEN Uploaded(400, "VALIDATION_ERROR", FALSE, FALSE)
  ELSE IF title > MaxTitleLength
  THEN Uploaded(400, "VALIDATION_ERROR", FALSE, FALSE)
  ELSE IF description > MaxDescriptionLength
  THEN Uploaded(500, "INTERNAL_ERROR", FALSE, FALSE)
  ELSE IF size > MaxFileSize
  THEN Uploaded(413, "FILE_TOO_LARGE", FALSE, FALSE)
  ELSE IF size < MinFileSize
  THEN Uploaded(400, "INVALID_FORMAT", FALSE, FALSE)
  ELSE IF LowerExt(filename) \notin allowedExtensions
  THEN Uploaded(400, "INVALID_FORMAT", FALSE, FALSE)
  ELSE IF ~isVideoFile(head)
  THEN Uploaded(400, "INVALID_FORMAT", FALSE, FALSE)
  ELSE IF ~okCreate THEN Uploaded(500, "INTERNAL_ERROR", FALSE, FALSE)
  ELSE Uploaded(201, "", TRUE, okEnqueue)

\* a POST /api/videos/upload
PostUpload ==
  /\ call = NoCall
  /\ \E title \in TitleLengths, description \in DescriptionLengths,
        size \in FileSizes, filename \in Filenames, head \in FileHeads,
        okCreate \in BOOLEAN, okEnqueue \in BOOLEAN :
       call' = [op |-> "Upload", title |-> title,
                description |-> description, size |-> size,
                filename |-> filename, head |-> head,
                out |-> UploadVideo(title, description, size, filename, head,
                                    okCreate, okEnqueue)]
  /\ UNCHANGED program

\* a query parameter: absent, a decimal number, or a text that is no number
Absent == [kind |-> "absent", n |-> 0]

Number(n) == [kind |-> "number", n |-> n]

Word == [kind |-> "word", n |-> 0]

\* c.DefaultQuery(key, default)
DefaultQuery(param, default) ==
  IF param.kind = "absent" THEN Number(default) ELSE param

\* n, _ := strconv.Atoi(text): 0 when the text is no number
Atoi(param) == IF param.kind = "number" THEN param.n ELSE 0

\* validator.ValidatePageParams returns no error
ValidatePageParams(page, limit) == page >= 1 /\ limit >= 1 /\ limit <= 100

\* UploadHandler.ListVideos up to the query of the repository: the
\* validation error, or the limit and the offset of the query
ListVideos(pageParam, limitParam) ==
  LET page0 == Atoi(DefaultQuery(pageParam, 1))
      limit0 == Atoi(DefaultQuery(limitParam, 20))
      page == IF page0 < 1 THEN 1 ELSE page0
      limit == IF limit0 < 1 \/ limit0 > 100 THEN 20 ELSE limit0
  IN IF ~ValidatePageParams(page, limit)
     THEN [code |-> 400, error |-> "VALIDATION_ERROR", limit |-> 0,
           offset |-> 0]
     ELSE [code |-> 200, error |-> "", limit |-> limit,
           offset |-> (page - 1) * limit]

PageParams == {Absent, Word} \cup {Number(n) : n \in -1..3}

LimitParams == {Absent, Word} \cup {Number(n) : n \in {-1, 0, 1, 20, 100, 101}}

\* a GET /api/videos
GetVideos ==
  /\ call = NoCall
  /\ \E pageParam \in PageParams, limitParam \in LimitParams :
       call' = [op |-> "ListVideos", page |-> pageParam,
                limit |-> limitParam,
                out |-> ListVideos(pageParam, limitParam)]
  /\ UNCHANGED program

\* the values of created_at
Times == {1, 2}

\* the videos tables: created_at of the rows 1..n
Tables == UNION {[1..n -> Times] : n \in 0..MaxRows}

\* ORDER BY created_at DESC: the orders in which a query may return the
\* rows of table t; the order of rows with the same created_at is not
\* determined and may differ from one query to the next
Orders(t) ==
  {o \in [DOMAIN t -> DOMAIN t] :
     /\ \A i \in DOMAIN t, j \in DOMAIN t : i # j => o[i] # o[j]
     /\ \A i \in DOMAIN t, j \in DOMAIN t : i < j => t[o[i]] >= t[o[j]]}

\* PostgresVideoRepository.List: LIMIT limit OFFSET offset of the rows in
\* the order o of this query
List(o, limit, offset) ==
  SubSeq(o, offset + 1,
         IF offset + limit < Len(o) THEN offset + limit ELSE Len(o))

\* the results of the queries of the pages 1..k, one after the other, the
\* query of page p returning the rows in the order os[p]
RECURSIVE ListedPages(_, _, _)
ListedPages(os, limit, k) ==
  IF k = 0 THEN <<>>
  ELSE ListedPages(os, limit, k - 1) \o List(os[k], limit, (k - 1) * limit)

\* the pages 1..k of a table are listed, and the first k * limit rows in
\* one query, with no write in between; the same query (one page) returns
\* the same rows
ListPages ==
  /\ call = NoCall
  /\ \E t \in Tables, limit \in 1..MaxPageLimit, k \in 1..MaxPages :
       \E os \in [1..k -> Orders(t)], o \in Orders(t) :
         /\ k = 1 => o = os[1]
         /\ call' = [op |-> "List", table |-> t, limit |-> limit,
                     pages |-> k, concat |-> ListedPages(os, limit, k),
                     single |-> List(o, k * limit, 0)]
  /\ UNCHANGED program

\* ctx.Err() when the packager is started, after it has failed, and when
\* it is started again: a context that is done stays done
CtxHistories ==
  {h \in [1..3 -> {"nil", "DeadlineExceeded", "Canceled"}] :
     \A i \in 1..2 : h[i] # "nil" => h[i + 1] = h[i]}

\* a ConvertToHLS that runs the packager a second time whatever the first
\* run returned
RetriesOnceAlways(exit, ctxErr) == TRUE

\* ConvertToHLS after the first cmd.CombinedOutput: a second one follows an
\* error unless the context is cancelled or timed out
RetriesOnce(exit, ctxErr) ==
  ~exit /\ ctxErr \notin {"DeadlineExceeded", "Canceled"}

\* exec.CommandContext(ctx, ...).CombinedOutput: a command whose context is
\* done is not started and returns the context's error; otherwise the
\* packager runs and leaves its files
Command(d, q, ctxErr, r) ==
  IF ctxErr # "nil" THEN [ran |-> FALSE, exit |-> FALSE, disk |-> d]
  ELSE [ran |-> TRUE, exit |-> r.exit, disk |-> Wrote(d, q, r)]

\* TranscodingService.ConvertToHLS for quality q on disk d: the runs of the
\* packager, the error returned and the disk left
ConvertToHLS(d, q, okDir, h, r1, r2) ==
  IF ~okDir THEN [runs |-> 0, err |-> TRUE, disk |-> d]
  ELSE LET c1 == Command(d, q, h[1], r1)
           n1 == IF c1.ran THEN 1 ELSE 0
       IN IF RetriesOnce(c1.exit, h[2])
          THEN LET c2 == Command(c1.disk, q, h[3], r2)
                   n2 == n1 + IF c2.ran THEN 1 ELSE 0
               IN IF ~c2.exit
                  THEN [runs |-> n2, err |-> TRUE, disk |-> c2.disk]
                  ELSE [runs |-> n2, err |-> ~HLSVerified(c2.disk, q),
                        disk |-> c2.disk]
          ELSE IF ~c1.exit
          THEN [runs |-> n1, err |-> TRUE, disk |-> c1.disk]
          ELSE [runs |-> n1, err |-> ~HLSVerified(c1.disk, q),
                disk |-> c1.disk]

\* a call of ConvertToHLS on a disk that may hold the files of an earlier
\* attempt
PackageVariant ==
  /\ call = NoCall
  /\ \E pl \in SUBSET {"360p"}, sg \in SUBSET {"360p"}, okDir \in BOOLEAN,
        h \in CtxHistories, r1 \in HlsRuns, r2 \in HlsRuns :
       LET d == [disk EXCEPT !.playlist = pl, !.segments = sg,
                             !.rewritten = {}] IN
       call' = [op |-> "ConvertToHLS", quality |-> "360p", first |-> r1,
                ctx |-> h, out |-> ConvertToHLS(d, "360p", okDir, h, r1, r2)]
  /\ UNCHANGED program

\* the task QueueClient.EnqueueVideoProcessing hands to the queue
EnqueueVideoProcessing(priority) ==
  [type |-> "video:process", queue |-> getQueueName(priority)]

\* the task QueueClient.EnqueueThumbnailGeneration hands to the queue
EnqueueThumbnailGeneration ==
  [type |-> "video:thumbnail", queue |-> "default"]

\* a call of one of the two enqueue functions
EnqueueCall ==
  /\ call = NoCall
  /\ \/ \E priority \in -3..3 :
          call' = [op |-> "Enqueue", priority |-> priority,
                   task |-> EnqueueVideoProcessing(priority)]
     \/ call' = [op |-> "Enqueue", priority |-> 0,
                 task |-> EnqueueThumbnailGeneration]
  /\ UNCHANGED program

ApiNext ==
  \/ GetMaster
  \/ EnqueueCall
  \/ PackageVariant
  \/ WriteMaster
  \/ FirstGet
  \/ GetPlaylist
  \/ GetSegment
  \/ GetMP4
  \/ PostUpload
  \/ GetVideos
  \/ ListPages

ApiSpec == Init /\ [][ApiNext]_vars

\* --------------------------------------------------------- SessionService
\* what the SessionService never touches
media ==
  <<video, source, disk, jobs, att, admin, failures, payload, cache, readers,
    clear, call>>

AtRest == session.stack = <<>>

\* the running frame returns ret to its caller
Returned(ss, ret) ==
  [ss EXCEPT !.stack = SubSeq(@, 1, Len(@) - 1), !.ret = ret]

\* the running frame goes on at label and calls fn; a call that finds the
\* stack of the goroutine exhausted ends the process
Called(ss, label, fn) ==
  IF Len(ss.stack) < MaxDepth
  THEN [ss EXCEPT !.stack = SubSeq(@, 1, Len(@) - 1) \o <<label, fn>>]
  ELSE [ss EXCEPT !.stack = <<>>, !.ret = "fatal error: stack overflow"]

\* SessionService.CreateSession: a new session id, Set of the session key
\* with the TTL duration, SAdd to the user's set
CreateSession ==
  /\ AtRest
  /\ session.created < MaxSessions
  /\ LET i == session.created + 1 IN
     \E okSet \in BOOLEAN, okSAdd \in BOOLEAN :
       session' = [session EXCEPT
         !.created = i,
         !.store[i] = IF okSet THEN "live" ELSE @,
         !.userSessions = IF okSet /\ okSAdd THEN @ \cup {i} ELSE @]
  /\ UNCHANGED media

\* the clock passes the ExpiresAt of a stored session: ExpiresAt is
\* time.Now().Add(duration) taken before the Set, so it passes before the
\* TTL of the key has elapsed
ExpiresAtPasses(i) ==
  /\ session.store[i] = "live"
  /\ session' = [session EXCEPT !.store[i] = "expired"]
  /\ UNCHANGED media

\* the TTL of the session key elapses and Redis drops the key
KeyExpires(i) ==
  /\ session.store[i] = "expired"
  /\ session' = [session EXCEPT !.store[i] = "absent"]
  /\ UNCHANGED media

\* a caller (ValidateSession, GetUserSessions, RefreshSession) calls
\* GetSession
GetSession_Call(i) ==
  /\ AtRest
  /\ session' = [session EXCEPT !.id = i, !.stack = <<"GetSession">>,
                                !.ret = "none", !.failed = FALSE]
  /\ UNCHANGED media

\* GetSession: redisClient.Get, the errors, the ExpiresAt check and the
\* call of DeleteSession
GetSession_Get ==
  /\ ~AtRest
  /\ session.stack[Len(session.stack)] = "GetSession"
  /\ \E ok \in BOOLEAN :
       LET stored == session.store[session.id] IN
       IF ~ok THEN session' = [Returned(session, "failed to get session")
                                 EXCEPT !.failed = TRUE]
       ELSE IF stored = "absent"
       THEN session' = Returned(session, "session not found")
       ELSE IF stored = "expired"
       THEN session' = Called(session, "GetSession_expired",
                              "DeleteSession")
       ELSE session' = Returned(session, "session")
  /\ UNCHANGED media

\* GetSession after _ = s.DeleteSession(ctx, sessionID)
GetSession_Return ==
  /\ ~AtRest
  /\ session.stack[Len(session.stack)] = "GetSession_expired"
  /\ session' = Returned(session, "session expired")
  /\ UNCHANGED media

GetSession(i) ==
  \/ GetSession_Call(i)
  \/ GetSession_Get
  \/ GetSession_Return

\* a caller (a logout) calls DeleteSession
DeleteSession_Call(i) ==
  /\ AtRest
  /\ session' = [session EXCEPT !.id = i, !.stack = <<"DeleteSession">>,
                                !.ret = "none", !.failed = FALSE]
  /\ UNCHANGED media

\* DeleteSession: session, err := s.GetSession(ctx, sessionID)
DeleteSession_GetSession ==
  /\ ~AtRest
  /\ session.stack[Len(session.stack)] = "DeleteSession"
  /\ session' = Called(session, "DeleteSession_got", "GetSession")
  /\ UNCHANGED media

\* DeleteSession after GetSession: return nil on its error, else Del of the
\* session key and SRem from the user's set
DeleteSession_Del ==
  /\ ~AtRest
  /\ session.stack[Len(session.stack)] = "DeleteSession_got"
  /\ IF session.ret # "session"
     THEN session' = Returned(session, "nil")
     ELSE \E okDel \in BOOLEAN, okSRem \in BOOLEAN :
            session' =
              IF ~okDel
              THEN [Returned(session, "failed to delete session")
                      EXCEPT !.failed = TRUE]
              ELSE [Returned(session,
                             IF okSRem THEN "nil"
                             ELSE "failed to remove session from user sessions")
                      EXCEPT !.store[session.id] = "absent",
                             !.userSessions =
                               IF okSRem THEN @ \ {session.id} ELSE @,
                             !.failed = @ \/ ~okSRem]
  /\ UNCHANGED media

DeleteSession(i) ==
  \/ DeleteSession_Call(i)
  \/ DeleteSession_GetSession
  \/ DeleteSession_Del

SessionNext ==
  \/ CreateSession
  \/ \E i \in SessionIds :
    \/ ExpiresAtPasses(i)
    \/ KeyExpires(i)
    \/ GetSession(i)
    \/ DeleteSession(i)

\* every Redis command of a call that is under way returns
SessionFairSpec ==
  /\ Init
  /\ [][SessionNext]_vars
  /\ WF_vars(GetSession_Get)
  /\ WF_vars(GetSession_Return)
  /\ WF_vars(DeleteSession_GetSession)
  /\ WF_vars(DeleteSession_Del)

\* ----------------------------------------------------------------- claims
Range(s) == {s[k] : k \in 1..Len(s)}

NonDecreasing(s) == \A k \in 1..Len(s), m \in 1..Len(s) : k <= m => s[k] <= s[m]

\* the positions of ProcessVideo past the status guard and before the return
\* of the terminal MarkAsReady / MarkAsFailed
AttemptPcs ==
  {"UpdateStatus", "ExtractMetadata", "MarkAsFailed", "MarkAsFailedEmpty",
   "transcodeVideo", "UpdateProgressHLS", "ConvertToHLS", "CreateMaster",
   "UpdateHLSInfo", "generateThumbnail", "MarkAsReady"}

InAttempt(j) == Active(j) /\ att[j].pc \in AttemptPcs

\* C1: at most one processing attempt of the video is active at a time: no
\* two executions of ProcessVideo are both past the status guard and before
\* their terminal MarkAsReady / MarkAsFailed.
C1_AtMostOneAttempt == Cardinality({j \in JobIds : InAttempt(j)}) <= 1

\* C2: once the persisted status is ready, no step of any operation changes it.
C2_ReadyIsStable ==
  [][(video.exists /\ video.status = VideoStatusReady)
       => video'.status = VideoStatusReady]_vars

StatusEdges ==
  {<<VideoStatusUploading, VideoStatusProcessing>>,
   <<VideoStatusProcessing, VideoStatusReady>>,
   <<VideoStatusProcessing, VideoStatusFailed>>,
   <<VideoStatusFailed, VideoStatusUploading>>}

\* C3: every change of the persisted status is one of the edges
\* uploading->processing, processing->ready, processing->failed,
\* failed->uploading.
C3_StatusEdges ==
  [][(video.exists /\ video'.status # video.status)
       => <<video.status, video'.status>> \in StatusEdges]_vars

\* C4: when a job is archived (its first run and its 3 retries failed) the
\* video's status is failed.
C4_ArchivedIsFailed ==
  \A j \in JobIds :
    jobs[j].state = "archived" => video.status = VideoStatusFailed

\* C5: an attempt interrupted after the video entered processing is followed,
\* under fair scheduling, by the video reaching ready or failed.
C5_InterruptedAttemptRecovers ==
  ((\E j \in JobIds : att[j].result = "interrupted")
     /\ video.status = VideoStatusProcessing)
  ~> (video.status \in {VideoStatusReady, VideoStatusFailed})

\* C6 as stated: hls_ready implies that the master manifest exists and that
\* every quality of available_qualities has a variant manifest and a segment.
C6_HlsReadyCoversAvailableQualities ==
  video.hlsReady =>
    /\ disk.master # NoFile
    /\ \A q \in Range(video.qualities) : q \in disk.playlist /\ q \in disk.segments

\* C6 as amended: hls_ready implies that the master manifest exists and that
\* every quality listed in the master manifest has a variant manifest and a
\* segment on disk.
C6_HlsReadyCoversMasterEntries ==
  video.hlsReady =>
    /\ disk.master # NoFile
    /\ \A q \in Range(disk.master) : q \in disk.playlist /\ q \in disk.segments

\* hls_ready is set, a quality is listed in the master manifest and another
\* quality of available_qualities, whose packaging failed, is not
C6_Witness ==
  /\ video.hlsReady
  /\ video.status = VideoStatusReady
  /\ disk.master # NoFile
  /\ Len(disk.master) > 0
  /\ \E q \in Range(video.qualities) :
       q \notin Range(disk.master) /\ q \notin disk.segments

\* C7 as stated: in every state with status ready a master manifest exists.
C7_ReadyHasMaster ==
  (video.exists /\ video.status = VideoStatusReady) => disk.master # NoFile

\* C7 as amended: in every state with status ready the attempt that marked
\* the video ready transcoded at least one quality: available_qualities is
\* not empty and the MP4 of each of its qualities is on disk (a master
\* manifest need not exist).
C7_ReadyHasTranscodedQualities ==
  (video.exists /\ video.status = VideoStatusReady) =>
    /\ Range(video.qualities) # {}
    /\ \A q \in Range(video.qualities) : q \in disk.mp4

\* the video is ready, its MP4s exist and no master manifest was written
C7_Witness ==
  /\ video.status = VideoStatusReady
  /\ Range(video.qualities) # {}
  /\ disk.master = NoFile

\* C8: status = ready implies that available_qualities is non-empty and that
\* processed_at is set.
C8_ReadyHasQualitiesAndProcessedAt ==
  (video.exists /\ video.status = VideoStatusReady) =>
    Len(video.qualities) > 0 /\ video.processedAt

\* an attempt has marked the video ready
C8_Witness ==
  /\ video.status = VideoStatusReady
  /\ \E j \in JobIds : att[j].result = "ok"

\* C9: the progress values an attempt persisted are non-decreasing, and the
\* last of them is 100 if and only if the attempt ended with status ready.
C9_MonotoneProgressEndsAt100 ==
  \A j \in JobIds :
    (att[j].pc = "done" /\ att[j].result \in {"ok", "error"}) =>
      /\ NonDecreasing(att[j].persisted)
      /\ (att[j].result = "ok") <=>
           (Len(att[j].persisted) > 0
              /\ att[j].persisted[Len(att[j].persisted)] = 100)

\* C10: whenever the video enters status processing its persisted progress
\* is 0, and the admin retry of a failed video leaves progress 0.
C10_ProgressResetOnEntry ==
  [][/\ (video.exists /\ video.status # VideoStatusProcessing
           /\ video'.status = VideoStatusProcessing) => video'.progress = 0
     /\ (video.status = VideoStatusFailed
           /\ video'.status = VideoStatusUploading) => video'.progress = 0]_vars

\* C11: a job that finds the video in a status other than uploading or
\* failed is not retried and leaves the row unchanged.
C11_GuardRejectionNotRetried ==
  [][\A j \in JobIds :
       (/\ At(j, "GetByID")
        /\ video.exists
        /\ video.status \in {VideoStatusProcessing, VideoStatusReady}
        /\ failures' = failures
        /\ att'[j].pc = "done")
       => (jobs'[j].state # "retry" /\ video' = video)]_vars

\* C12: a job whose video has no row fails permanently: it is not
\* scheduled for a retry.
C12_MissingVideoNotRetried ==
  [][\A j \in JobIds :
       (/\ At(j, "GetByID")
        /\ ~video.exists
        /\ failures' = failures
        /\ att'[j].pc = "done")
       => jobs'[j].state # "retry"]_vars

\* the qualities that were transcoded, packaged, listed in the master
\* manifest or stored in available_qualities
Produced ==
  disk.mp4 \cup disk.playlist \cup disk.segments
    \cup (IF disk.master = NoFile THEN {} ELSE Range(disk.master))
    \cup Range(video.qualities)
    \cup UNION {Range(att[j].transcoded) \cup Range(att[j].hlsQualities) :
                j \in JobIds}

\* C13: every quality that is transcoded, packaged, listed in the master
\* manifest or stored in available_qualities has a height that does not
\* exceed the probed height of the source.
C13_NoUpscale == \A q \in Produced : qualitySpecs[q] <= source.height

\* the qualities above a 480 source were skipped and the attempt ended ready
C13_Witness ==
  /\ source.height = 480
  /\ video.status = VideoStatusReady
  /\ video.qualities = <<"360p", "480p">>
  /\ disk.mp4 = {"360p", "480p"}

\* C14: the attempt that marks the video ready stores as available_qualities
\* exactly the qualities not above the source whose transcode succeeded in
\* that attempt, in the order 360p, 480p, 720p, 1080p.
C14_AvailableQualitiesExact ==
  [][\A j \in JobIds :
       (At(j, "MarkAsReady") /\ att'[j].pc = "UpdateProgress100")
       => video'.qualities =
            SelectSeq(qualities,
                      LAMBDA q : /\ qualitySpecs[q] <= source.height
                                 /\ q \in att[j].succeeded)]_vars

\* the transcode of 360p failed, 480p was attempted after it and the
\* attempt ended ready
C14_Witness ==
  /\ source.height = 480
  /\ video.status = VideoStatusReady
  /\ video.qualities = <<"480p">>
  /\ "360p" \notin disk.mp4

\* the positions of ProcessVideo at its two fatal returns, and the
\* positions up to them
FatalPcs == {"MarkAsFailed", "MarkAsFailedEmpty"}

EarlyPcs == {"GetByID", "UpdateStatus", "ExtractMetadata", "transcodeVideo"}

C16_OnlyRequestedQualities ==
  \A j \in JobIds :
    \A q \in Range(att[j].transcoded) \cup Range(att[j].hlsQualities) :
      q \in Range(payload[j])

\* C19: the segment files of a quality, once written, are never written
\* again.
C19_SegmentsWrittenOnce == disk.rewritten = {}

\* C17: a GET of master.m3u8 that arrives after the cache invalidation has
\* completed returns the master manifest as it is on disk (the manifest was
\* written completely before the invalidation began and has not changed
\* since).
C17_GetAfterClearIsCurrent ==
  \A r \in ReaderIds :
    (/\ readers[r].pc = "done"
     /\ readers[r].target = "master"
     /\ readers[r].afterClear
     /\ readers[r].code = 200
     /\ clear.seen = disk.master
     /\ disk.master # <<>>)
    => readers[r].body = disk.master

\* C18: a GET of master.m3u8 never serves or caches a partially written
\* manifest: what it serves lists the variants of the previous or of the new
\* manifest, not the empty file that os.Create leaves.
C18_NoPartialManifest ==
  /\ cache["master"] # <<>>
  /\ \A r \in ReaderIds :
       (/\ readers[r].pc = "done"
        /\ readers[r].target = "master"
        /\ readers[r].code = 200)
       => readers[r].body # <<>>

\* C20: a playlist request that found hls_ready set and whose manifest file
\* is on disk is answered 200 with a manifest text, whatever the cache
\* calls returned.
C20_CacheErrorsDoNotFailRequest ==
  \A r \in ReaderIds :
    (/\ readers[r].pc = "done"
     /\ readers[r].sawReady
     /\ FileOf(disk, readers[r].target) # NoFile)
    => readers[r].code = 200 /\ readers[r].body # NoKey

\* a request was answered 200 from the disk although its cache SET failed:
\* nothing is cached and nothing was invalidated
C20_Witness ==
  \E r \in ReaderIds :
    /\ readers[r].pc = "done"
    /\ readers[r].sawReady
    /\ readers[r].code = 200
    /\ cache[readers[r].target] = NoKey
    /\ clear.pc = "idle"
    /\ failures = 1

C23_UploadedVideoHasJob ==
  video.exists =>
    \E j \in JobIds :
      /\ jobs[j].state # "none"
      /\ jobs[j].priority = 0
      /\ jobs[j].queue = "default"

\* the place of a quality in the catalog
CatalogIndex(q) == CHOOSE k \in 1..Len(qualities) : qualities[k] = q

\* the BANDWIDTH values of the entries of a manifest
Bandwidths(out) == [k \in 1..((Len(out) - 2) \div 2) |-> out[2 * k + 1].BANDWIDTH]

C25_DefaultConfigServesWrittenFiles ==
  (call.op = "FirstGet" /\ call.transcodedPath = DefaultTranscodedPath) =>
    /\ call.read = call.written
    /\ call.code = 200

StreamingOps ==
  {"ServeMasterPlaylist", "ServeQualityPlaylist", "ServeSegment",
   "ServeMP4Fallback"}

\* the names segment_ddd.ts
WellFormedSegments ==
  {SegmentPrefix \o <<a, b, c>> \o SegmentSuffix : a, b, c \in Digits}

C28_RejectedUploadLeavesNothing ==
  (/\ call.op = "Upload"
   /\ \/ call.title = 0
      \/ call.title > 255
      \/ call.description > 5000
      \/ LowerExt(call.filename) \notin {".mp4", ".mov", ".avi", ".mkv", ".webm"}
      \/ ~isVideoFile(call.head)
      \/ call.size > MaxFileSize)
    => /\ <<call.out.code, call.out.error>> \in
            {<<400, "VALIDATION_ERROR">>, <<400, "INVALID_FORMAT">>,
             <<413, "FILE_TOO_LARGE">>}
       /\ ~call.out.row
       /\ ~call.out.rawFile
       /\ ~call.out.job

\* C29: a GET /api/videos with a page below 1 or a limit outside 1..100 is
\* answered 400 VALIDATION_ERROR; with valid parameters the repository is
\* queried with the given limit, 20 when it is absent, and the offset
\* (page - 1) * limit.
C29_BadPaginationRejected ==
  call.op = "ListVideos" =>
    LET badPage == call.page.kind = "number" /\ call.page.n < 1
        badLimit == /\ call.limit.kind = "number"
                    /\ (call.limit.n < 1 \/ call.limit.n > 100)
        page == IF call.page.kind = "absent" THEN 1 ELSE call.page.n
        limit == IF call.limit.kind = "absent" THEN 20 ELSE call.limit.n
    IN /\ (badPage \/ badLimit) =>
            call.out.code = 400 /\ call.out.error = "VALIDATION_ERROR"
       /\ (/\ call.page.kind # "word" /\ call.limit.kind # "word"
           /\ ~badPage /\ ~badLimit) =>
            /\ call.out.code = 200
            /\ call.out.limit = limit
            /\ call.out.offset = (page - 1) * limit

\* C30: with no write in between, the results of list for the pages 1..K
\* with the same limit, one after the other, are the result of the single
\* call list(K * limit, 0), also when rows share their created_at.
C30_PagesConcatenateToSingleList ==
  call.op = "List" => call.concat = call.single

\* C31: a video:process task is retried at most 3 times; the retry after
\* the failure of a run with n retries behind it is scheduled 1 minute
\* later for n = 0, 5 minutes for n = 1 and 30 minutes for n >= 2; a run
\* that fails with 3 retries behind it archives the task, and an archived
\* task is never run or changed again.
C31_RetryPolicy ==
  [][\A j \in JobIds :
       /\ jobs'[j].retried <= 3
       /\ (jobs[j].state = "active" /\ jobs'[j].state = "retry") =>
            /\ jobs[j].retried < 3
            /\ jobs'[j].retried = jobs[j].retried + 1
            /\ jobs'[j].delay = CASE jobs[j].retried = 0 -> 1
                                  [] jobs[j].retried = 1 -> 5
                                  [] jobs[j].retried >= 2 -> 30
       /\ (jobs[j].state = "active" /\ jobs'[j].state = "archived") =>
            jobs[j].retried = 3
       /\ (jobs[j].state = "active" /\ jobs[j].retried = 3) =>
            jobs'[j].state \in {"active", "completed", "archived"}
       /\ jobs[j].state = "archived" => jobs'[j] = jobs[j]]_vars

\* C31: a task was archived after its third retry, scheduled 30 minutes
\* after the failure before it, has failed.
C31_Witness ==
  \E j \in JobIds :
    /\ jobs[j].state = "archived"
    /\ jobs[j].retried = 3
    /\ jobs[j].delay = 30

\* C32: a video:process task goes to queue critical for a priority of 2
\* or more, to queue low for a priority of -1 or less and to queue default
\* for the priorities 0 and 1; a video:thumbnail task always goes to
\* queue default.
C32_QueueOfPriority ==
  call.op = "Enqueue" =>
    /\ call.task.type = "video:process" =>
         call.task.queue = CASE call.priority >= 2 -> "critical"
                             [] call.priority <= -1 -> "low"
                             [] call.priority \in {0, 1} -> "default"
    /\ call.task.type = "video:thumbnail" => call.task.queue = "default"

\* C32: a video:process task of a negative priority was placed on queue
\* low.
C32_Witness ==
  /\ call.op = "Enqueue"
  /\ call.task.type = "video:process"
  /\ call.priority = -1
  /\ call.task.queue = "low"

\* C33: ConvertToHLS runs the packager at most twice; it runs it twice only
\* if the first run failed and the context was neither cancelled nor timed
\* out after that failure; it returns no error only if the variant's
\* playlist and at least one of its segments exist afterwards.
C33_PackagerRunsAndChecks ==
  call.op = "ConvertToHLS" =>
    /\ call.out.runs <= 2
    /\ call.out.runs = 2 =>
         /\ ~call.first.exit
         /\ call.ctx[1] = "nil"
         /\ call.ctx[2] = "nil"
    /\ ~call.out.err =>
         /\ call.quality \in call.out.disk.playlist
         /\ call.quality \in call.out.disk.segments

\* C33: a conversion succeeded with its second run of the packager.
C33_Witness ==
  /\ call.op = "ConvertToHLS"
  /\ call.out.runs = 2
  /\ ~call.first.exit
  /\ ~call.out.err

\* C34: an attempt whose thumbnail generation failed goes on to MarkAsReady
\* with at least one transcoded quality and an empty thumbnail path; its
\* MarkAsReady stores status ready and the empty path; from the thumbnail
\* step on no step of the attempt sets the status failed.
C34_ThumbnailFailureNotFatal ==
  [][\A j \in JobIds :
       /\ (At(j, "generateThumbnail") /\ jobs'[j].state = "active"
             /\ att'[j] # att[j]) =>
            /\ att'[j].pc = "MarkAsReady"
            /\ Len(att'[j].transcoded) > 0
            /\ ~disk'.thumbnail => att'[j].thumb = ""
            /\ video'.status = video.status
       /\ (At(j, "MarkAsReady") /\ att[j].thumb = ""
             /\ att'[j].pc = "UpdateProgress100") =>
            /\ video'.status = VideoStatusReady
            /\ video'.thumbnail = ""
            /\ Len(video'.qualities) > 0
       /\ (Active(j) /\ att[j].pc \in {"MarkAsReady", "UpdateProgress100"}
             /\ att'[j] # att[j]) =>
            video'.status \in {video.status, VideoStatusReady}]_vars

\* C34: an attempt whose thumbnail generation failed has ended without
\* error and the video is ready with an empty thumbnail path.
C34_Witness ==
  /\ video.status = VideoStatusReady
  /\ video.thumbnail = ""
  /\ ~disk.thumbnail
  /\ \E j \in JobIds : att[j].result = "ok" /\ jobs[j].state = "completed"

\* C35: no step of a job creates or changes a row that is not there, and a
\* job that ends while the video's row is gone, the row having been deleted
\* while the job was processing the video, ends with an error.
C35_DeletedVideoEndsJobWithError ==
  [][\A j \in JobIds :
       /\ (~video.exists /\ att'[j] # att[j]) => video' = video
       /\ (Active(j) /\ ~video.exists /\ att'[j].pc = "done") =>
            /\ att'[j].result # "ok"
            /\ jobs'[j].state # "completed"]_vars

\* C36: a GET of master.m3u8 for a video whose row says that HLS is not
\* ready, or has no master path, is answered 404 HLS_NOT_READY, and one for
\* an id whose row is gone is answered 404, whatever the cache and the disk
\* hold: only the repository was asked.
C36_RecordCheckedBeforeCacheAndDisk ==
  (call.op = "GetMaster" /\ call.ok) =>
    /\ (call.id = "id"
          /\ (~call.video.hlsReady \/ ~call.video.hlsMasterPath)) =>
         /\ call.out.code = 404
         /\ call.out.error = "HLS_NOT_READY"
         /\ call.out.accessed = <<"repository">>
    /\ call.id = "gone" =>
         /\ call.out.code = 404
         /\ call.out.error = "NOT_FOUND"
         /\ call.out.accessed = <<"repository">>

\* C36: a request for a video that is not HLS-ready was answered 404 while
\* a manifest was cached and the master file was on disk.
C36_Witness ==
  /\ call.op = "GetMaster"
  /\ call.id = "id"
  /\ ~call.video.hlsReady
  /\ call.cached = <<"#EXTM3U">>
  /\ call.content = <<"#EXTM3U">>
  /\ call.out.error = "HLS_NOT_READY"

\* C37: at most one video:process task of the video is pending, scheduled
\* for a retry or active at any time.
C37_AtMostOneLiveJob ==
  Cardinality({j \in JobIds :
                 jobs[j].state \in {"pending", "retry", "active"}}) <= 1

\* C38: a retry request that is answered 500 because the task could not be
\* enqueued leaves the video in status failed.
C38_FailedEnqueueKeepsFailed ==
  [][(admin = "Enqueue" /\ admin' = "500") =>
       video'.status = VideoStatusFailed]_vars

\* C39: a call of GetSession that has read a stored session whose
\* ExpiresAt has passed returns, and when it has returned, no Redis command
\* having failed, it has given the session-expired error and the session key
\* and the id in the user's session set are removed.
C39_GetSessionOfExpiredReturns ==
  \A i \in SessionIds :
    (session.stack = <<"GetSession_expired", "DeleteSession">>
       /\ session.id = i)
    ~> (AtRest /\ session.id = i
          /\ (session.failed
                \/ (session.ret = "session expired"
                      /\ session.store[i] = "absent"
                      /\ i \notin session.userSessions)))

====
